---- MODULE Spec2Model ----
(***************************************************************************)
(* Model of the BioAccessLabs Playwright suite: the authentication         *)
(* session cache (src/fixtures/authFixture.ts, testFixture.ts,             *)
(* authFixtures.ts, the auth setup script) and the life cycle of the       *)
(* fixtures of one test (construction, test body, teardown).               *)
(*                                                                         *)
(* One worker runs tests one after the other, step by step (every await    *)
(* is a step).  Other workers are separate processes: they share only the  *)
(* snapshot files, so they appear as the Peer actions, which unlink or     *)
(* write a file between any two steps of this worker.                      *)
(***************************************************************************)
EXTENDS Integers, Sequences, FiniteSets, TLC

\* ------------------------------------------------------------------ bounds

\* The clock advances at most this many times.
MaxTicks == 2

\* ------------------------------------------------------------------- time

\* isAuthFileValid's default maxAge, in milliseconds.
maxAge == 24 * 60 * 60 * 1000

\* The clock moves in steps of twelve hours.
ClockStep == 12 * 60 * 60 * 1000

\* ------------------------------------------------------------------ files

Roles == {"user", "admin", "guest"}

AUTH_FILE_USER == "user.json"
AUTH_FILE_ADMIN == "admin.json"
\* authFixtures.ts: test-results/storageState.json
storageFile == "storageState.json"
\* testFixture.ts: path.join(process.cwd(), '.auth', 'user.json')
TF_authFile == AUTH_FILE_USER
\* the setup script: path.join(__dirname, '../../.auth/user.json'), the script
\* being two directories below the repository root (it imports ../../src/...)
setup_authFile == AUTH_FILE_USER

Files == {AUTH_FILE_USER, AUTH_FILE_ADMIN, storageFile}

\* A file that does not exist.
Absent == [mtime |-> -1, by |-> "none", authed |-> FALSE]

\* fs.existsSync(filePath) on a file system fs
existsSync(fs, filePath) == fs[filePath] # Absent

\* A validity test with the comparison turned round: age > maxAge.
isAuthFileValid_inverted(fs, t, filePath) ==
    existsSync(fs, filePath) /\ t - fs[filePath].mtime > maxAge

\* isAuthFileValid(filePath) at time t: the file exists and age < maxAge.
\* (statSync raising is caught and gives false, as does a missing file.)
isAuthFileValid(fs, t, filePath) ==
    IF ~existsSync(fs, filePath)
      THEN FALSE
      ELSE LET age == t - fs[filePath].mtime
           IN  age < maxAge

\* A file as the validity check classifies it.
FileAge(fs, t, filePath) ==
    IF ~existsSync(fs, filePath) THEN "absent"
    ELSE IF t - fs[filePath].mtime < maxAge THEN "fresh" ELSE "stale"

\* clearAuthFile(filePath): unlink the file when it exists; an error of
\* unlinkSync (unlinkOk = FALSE) is caught and logged, the file stays.
clearAuthFile(fs, filePath, unlinkOk) ==
    IF existsSync(fs, filePath) /\ unlinkOk
      THEN [fs EXCEPT ![filePath] = Absent]
      ELSE fs

\* const authFile = role === 'admin' ? AUTH_FILE_ADMIN : AUTH_FILE_USER
AuthFileOf(role) == IF role = "admin" THEN AUTH_FILE_ADMIN ELSE AUTH_FILE_USER

\* A save that ignores its path and always writes the user file.
storageState_userFile(fs, t, filePath, cred, isAuthed) ==
    [fs EXCEPT ![AUTH_FILE_USER] = [mtime |-> t, by |-> cred, authed |-> isAuthed]]

\* context.storageState({ path }): the file is (over)written at time t with
\* the state of a context that logged in with `cred`'s credentials (authed)
\* or that never logged in.
storageState(fs, t, filePath, cred, isAuthed) ==
    [fs EXCEPT ![filePath] = [mtime |-> t, by |-> cred, authed |-> isAuthed]]

\* --------------------------------------------------------------- fixtures

\* The fixtures that acquire an authenticated session, and the setup script.
AF_authenticatedContext == "AF.authenticatedContext"
AF_authenticatedPage == "AF.authenticatedPage"
AF_userPage == "AF.userPage"
AF_adminPage == "AF.adminPage"
TF_authenticatedPage == "TF.authenticatedPage"
TF_authenticatedContext == "TF.authenticatedContext"
TF_page == "TF.page"
AFS_page == "AFS.page"
BT_context == "BT.context"
BT_page == "BT.page"
PW_context == "pw.context"
PW_page == "pw.page"
setup_authenticate == "setup.authenticate"

\* Fixtures whose setup goes through the snapshot cache.
CacheFixtures ==
    {AF_authenticatedContext, AF_userPage, AF_adminPage,
     TF_authenticatedPage, TF_authenticatedContext, AFS_page}

\* What a test may ask for: one fixture (with what it depends on), or the
\* setup script.
Entries ==
    {AF_authenticatedContext, AF_authenticatedPage, AF_userPage, AF_adminPage,
     TF_authenticatedPage, TF_authenticatedContext, TF_page, AFS_page, BT_page,
     setup_authenticate}

\* The fixture a fixture names as its parameter (browser, worker-scoped, is
\* left out): authenticatedPage: async ({ authenticatedContext }, use).
DependsOn(fx) ==
    CASE fx = AF_authenticatedPage -> AF_authenticatedContext
      [] fx = BT_page -> BT_context
      [] fx = AFS_page -> BT_page
      [] fx = TF_page -> PW_page
      [] fx = PW_page -> PW_context
      [] fx = setup_authenticate -> PW_page
      [] OTHER -> "none"

\* The fixtures a test asking for fx gets, in construction order: what fx
\* depends on is constructed before fx.
RECURSIVE Plan(_)
Plan(fx) ==
    IF DependsOn(fx) = "none"
      THEN <<fx>>
      ELSE Append(Plan(DependsOn(fx)), fx)

\* The fixtures of a test's plan; the setup script is the test body, not a
\* fixture.
PlanOf(e) == SelectSeq(Plan(e), LAMBDA f : f # setup_authenticate)

\* The snapshot file a fixture checks, loads and saves.
SnapshotFile(fx, authRole) ==
    CASE fx = AF_authenticatedContext -> AuthFileOf(authRole)
      [] fx = AF_userPage -> AUTH_FILE_USER
      [] fx = AF_adminPage -> AUTH_FILE_ADMIN
      [] fx \in {TF_authenticatedPage, TF_authenticatedContext} -> TF_authFile
      [] fx = AFS_page -> storageFile
      [] fx = setup_authenticate -> setup_authFile

\* The role whose credentials the fixture logs in with:
\* envConfig.getCredentials(...).  authFixtures.ts's page logs nobody in.
CredentialRole(fx, authRole) ==
    CASE fx = AF_authenticatedContext -> authRole
      [] fx = AF_userPage -> "user"
      [] fx = AF_adminPage -> "admin"
      [] fx \in {TF_authenticatedPage, TF_authenticatedContext} -> "user"
      [] fx = AFS_page -> "none"
      [] fx = setup_authenticate -> "user"

\* The role the fixture is to give a session of.
SessionRole(fx, authRole) == CredentialRole(fx, authRole)

\* The `if` that decides between loading the snapshot and logging in:
\* isAuthFileValid(file) in authFixture.ts, fs.existsSync(file) in
\* testFixture.ts and authFixtures.ts.
SnapshotUsable(fx, authRole, fs, t) ==
    IF fx \in {AF_authenticatedContext, AF_userPage, AF_adminPage}
      THEN isAuthFileValid(fs, t, SnapshotFile(fx, authRole))
      ELSE existsSync(fs, SnapshotFile(fx, authRole))

\* Whether the else branch drives the login page: in authFixtures.ts the
\* login call is commented out.
PerformsLogin(fx) == fx # AFS_page

\* Whether the login runs inside try { } catch { throw } finally { page.close() }.
ClosesLoginPageOnError(fx) == fx = AF_authenticatedContext

\* Whether the fixture works on a context and a temporary page of its own.
OwnsContext(fx) == fx \in CacheFixtures \ {AFS_page}

\* Whether the fixture hands a page (and not the context) to the test.
HandsPage(fx) == fx \in {AF_userPage, AF_adminPage, TF_authenticatedPage}

\* String.prototype.includes for the two URLs of the model.
Includes(url, part) == url = "/Login" /\ part = "Login"

\* page.waitForURL(predicate): "ok" when the predicate holds of the page's
\* URL, "raise" on timeout or when the predicate itself raises.  The
\* predicate receives a URL object: url.toString().includes('Login') reads
\* the URL; url.includes('Login'), written in adminPage and in the setup
\* script, calls a method URL does not have and raises a TypeError.
waitForURL(fx, url) ==
    IF fx \in {AF_adminPage, setup_authenticate}
      THEN "raise"
      ELSE IF ~Includes(url, "Login") THEN "ok" ELSE "raise"

\* Loading the snapshot into a browser context.  newContext({ storageState })
\* reads the file and raises when it is gone.  authFixtures.ts passes the
\* parsed storage state, an object, to addCookies, which takes an array and
\* raises.
LoadOutcome(fx, snap) ==
    IF snap = Absent \/ fx = AFS_page THEN "raise" ELSE "ok"

\* The resources a fixture without a cache creates in its setup.
Creates(fx) ==
    CASE fx \in {PW_context, BT_context} -> {"ctx"}
      [] fx \in {PW_page, BT_page, AF_authenticatedPage} -> {"page"}
      [] OTHER -> {}

\* A teardown that closes the context ahead of the page it handed out.
TeardownCloses_ctxFirst(fx) ==
    CASE fx \in {PW_context, BT_context} -> <<"ctx">>
      [] fx \in {PW_page, BT_page, AF_authenticatedPage} -> <<"page">>
      [] fx \in {AF_authenticatedContext, TF_authenticatedContext} -> <<"ctx">>
      [] fx \in {AF_userPage, AF_adminPage, TF_authenticatedPage} -> <<"ctx", "page">>
      [] OTHER -> << >>

\* The resources a fixture closes after `await use(...)`, in order.
TeardownCloses(fx) ==
    CASE fx \in {PW_context, BT_context} -> <<"ctx">>
      [] fx \in {PW_page, BT_page, AF_authenticatedPage} -> <<"page">>
      [] fx \in {AF_authenticatedContext, TF_authenticatedContext} -> <<"ctx">>
      [] fx \in {AF_userPage, AF_adminPage, TF_authenticatedPage} -> <<"page", "ctx">>
      [] OTHER -> << >>

\* ------------------------------------------------------------------ state

VARIABLES
    files,      \* the snapshot files: file -> snapshot, or Absent
    now,        \* Date.now()
    pc,         \* where the worker's current test is
    entry,      \* what the current test asked for
    authRole,   \* the authRole option of the current test
    cur,        \* the cache fixture (or the setup script) being set up
    built,      \* the fixtures that reached use(), in construction order
    torn,       \* the fixtures whose teardown ran, in that order
    opened,     \* the contexts and pages created in this test
    closeLog,   \* the contexts and pages closed in this test, in order
    seen,       \* the snapshot file at the fixture's check: "absent", "fresh", "stale"
    usable,     \* what the fixture's `if` decided: "yes" (load), "no" ("none" before)
    loaded,     \* the snapshot the context was built from, or Absent
    logins,     \* login flows started in this test
    url,        \* the URL of the login page's tab
    wrote,      \* this test wrote a snapshot file
    status,     \* testInfo.status
    expected,   \* testInfo.expectedStatus
    raised,     \* the error raised inside the setup of cur, "none" if none
    error,      \* the error the runner got from a setup or the body, "none" if none
    tdError,    \* the error that escaped a fixture's teardown, "none" if none
    shot,       \* the failure screenshot: "none", "taken", "attached"
    afterClear, \* the fixture's check came right after clearAuthState of its role
    cleared,    \* role of the clearAuthState call that just returned
    refreshed,  \* role of the refreshAuth call that just returned without an error
    call,       \* the last call of a helper or utility: its name, arguments and outcome
    password,   \* generateStrongPassword: the password built so far
    pwLen,      \* generateStrongPassword: its length argument, -1 when it is not running
    instance,   \* EnvironmentConfig.instance, NoInstance while it is undefined
    environ,    \* process.env
    constructed,\* how many times the constructor of EnvironmentConfig ran
    first,      \* the instance the first getInstance() call returned
    run,        \* the page-object method that is running, NoRun if none
    trace,      \* what the last page-object method did to the page, in order
    page        \* the page: its URL and its remember-login checkbox

vars ==
    <<files, now, pc, entry, authRole, cur, built, torn, opened, closeLog,
      seen, raised, usable, loaded, logins, url, wrote, status, expected, error, tdError,
      shot, afterClear, cleared, refreshed, call, password, pwLen,
      instance, environ, constructed, first, run, trace, page>>

\* The variables of the helpers and utilities.
utilVars ==
    <<call, password, pwLen, instance, environ, constructed, first, run, trace, page>>

\* The variables of the page objects.
pageVars == <<run, trace, page>>

\* No page-object method is running.
NoRun == [m |-> "none"]

\* The variables of the configuration singleton.
cfgVars == <<instance, environ, constructed, first>>

\* The environment variables the constructor reads, and their values in
\* the model ("unset": the variable is not defined).
EnvVars == {"TEST_ENV", "BASE_URL", "API_URL", "TIMEOUT", "RETRIES"}
EnvValues(v) ==
    CASE v = "TEST_ENV" -> {"unset", "", "dev"}
      [] v = "BASE_URL" -> {"unset", "https://base/"}
      [] v = "API_URL" -> {"unset", "https://api/"}
      [] v = "TIMEOUT" -> {"unset", "0", "5000", "abc"}
      [] v = "RETRIES" -> {"unset", "0", "3"}

\* private static instance: undefined until the first getInstance()
NoInstance == [id |-> 0]

\* The variables of a password being generated.
genVars == <<password, pwLen>>

\* No helper has returned yet, or one is running.
NoCall == [op |-> "none", arg |-> << >>, ret |-> "none"]

\* The variables of the test that is running.
testVars ==
    <<entry, authRole, cur, built, torn, opened, closeLog, seen, raised,
      usable, loaded,
      logins, url, wrote, status, expected, error, tdError, shot, afterClear>>

\* The variables of the worker and its snapshot files.
workerVars == <<files, now, pc, testVars, cleared, refreshed>>

Statuses == {"passed", "failed", "timedOut"}

\* No test is running.
NoTest ==
    /\ entry = "none"
    /\ authRole = "user"
    /\ cur = "none"
    /\ built = << >>
    /\ torn = << >>
    /\ opened = {}
    /\ closeLog = << >>
    /\ seen = "none"
    /\ raised = "none"
    /\ usable = "none"
    /\ loaded = Absent
    /\ logins = 0
    /\ url = "none"
    /\ wrote = FALSE
    /\ status = "none"
    /\ expected = "passed"
    /\ error = "none"
    /\ tdError = "none"
    /\ shot = "none"
    /\ afterClear = FALSE

Init ==
    /\ files = [f \in Files |-> Absent]
    /\ now = 0
    /\ pc = "idle"
    /\ NoTest
    /\ cleared = "none"
    /\ refreshed = "none"
    /\ call = NoCall
    /\ password = << >>
    /\ pwLen = -1
    /\ instance = NoInstance
    /\ environ = [v \in EnvVars |-> "unset"]
    /\ constructed = 0
    /\ first = NoInstance
    /\ run = NoRun
    /\ trace = << >>
    /\ page = [url |-> "/Login", remember |-> FALSE]

\* ------------------------------------------------------- the environment

\* Time passes.
Tick ==
    /\ now + ClockStep <= MaxTicks * ClockStep
    /\ now' = now + ClockStep
    /\ cleared' = "none"
    /\ refreshed' = "none"
    /\ UNCHANGED utilVars
    /\ UNCHANGED <<files, pc, testVars>>

\* AuthHelper.clearAuthState(role), on files fs.
clearAuthState(fs, role, unlinkOk) ==
    clearAuthFile(fs, AuthFileOf(role), unlinkOk)

\* AuthHelper.clearAllAuthStates()
clearAllAuthStates(fs, okUser, okAdmin) ==
    clearAuthFile(clearAuthFile(fs, AUTH_FILE_USER, okUser), AUTH_FILE_ADMIN, okAdmin)

\* Another worker calls AuthHelper.clearAuthState(role), directly or as the
\* first step of AuthHelper.refreshAuth(page, role), whose login saves nothing.
PeerClearAuthState(role, unlinkOk) ==
    /\ files' = clearAuthState(files, role, unlinkOk)
    /\ files' # files
    /\ cleared' = "none"
    /\ refreshed' = "none"
    /\ UNCHANGED utilVars
    /\ UNCHANGED <<now, pc, testVars>>

\* Another worker, whose authenticatedContext found no usable snapshot some
\* time ago, finishes its login and saves the state.
PeerSaveState(role) ==
    /\ files' = storageState(files, now, AuthFileOf(role), role, TRUE)
    /\ files' # files
    /\ cleared' = "none"
    /\ refreshed' = "none"
    /\ UNCHANGED utilVars
    /\ UNCHANGED <<now, pc, testVars>>

\* ------------------------------------------------------ between two tests

\* AuthHelper.clearAuthState(role), called by this worker.
ClearAuthState(role, unlinkOk) ==
    /\ pc = "idle"
    /\ files' = clearAuthState(files, role, unlinkOk)
    /\ cleared' = role
    /\ refreshed' = "none"
    /\ UNCHANGED utilVars
    /\ UNCHANGED <<now, pc, testVars>>

\* AuthHelper.clearAllAuthStates(), called by this worker.
ClearAllAuthStates(okUser, okAdmin) ==
    /\ pc = "idle"
    /\ files' = clearAllAuthStates(files, okUser, okAdmin)
    /\ cleared' = "none"
    /\ refreshed' = "none"
    /\ UNCHANGED utilVars
    /\ UNCHANGED <<now, pc, testVars>>

\* AuthHelper.login(page, email, password): navigateToLoginPage,
\* loginWithCredentials, waitForLoginComplete, and a log line.  It saves no
\* storage state: the files are as they were.
login(fs) == fs

\* How AuthHelper.login ends.  waitForLoginComplete is a method of the
\* LoginPage class in basePage.ts and not of the one in loginPage.ts, the
\* module authFixture.ts imports: with the latter the call is a TypeError.
LoginResults == {"ok", "navigation", "fill", "waitForURL", "TypeError"}

\* AuthHelper.refreshAuth(page, role), on files fs: clearAuthState(role),
\* then login with the credentials of role.
refreshAuth(fs, role, unlinkOk) == login(clearAuthState(fs, role, unlinkOk))

\* AuthHelper.refreshAuth(page, role), called by this worker; res is how
\* its login ends.
RefreshAuth(role, unlinkOk, res) ==
    /\ pc = "idle"
    /\ res \in LoginResults
    /\ files' = refreshAuth(files, role, unlinkOk)
    /\ cleared' = "none"
    /\ refreshed' = IF res = "ok" THEN role ELSE "none"
    /\ UNCHANGED utilVars
    /\ UNCHANGED <<now, pc, testVars>>

\* The runner starts a test that asks for e.  Only authFixture.ts's
\* authenticatedContext reads the authRole option.
StartTest(e, r) ==
    /\ pc = "idle"
    /\ r # "user" => e \in {AF_authenticatedContext, AF_authenticatedPage}
    /\ entry' = e
    /\ authRole' = r
    /\ pc' = "construct"
    /\ UNCHANGED <<files, now, cur, built, torn, opened, closeLog, seen, usable,
                   loaded, logins, url, wrote, status, expected, raised, error,
                   tdError, shot, afterClear, cleared>>
    /\ refreshed' = "none"
    /\ UNCHANGED utilVars

\* --------------------------------------------------- fixture construction

\* The fixture the runner constructs next.
NextFixture == PlanOf(entry)[Len(built) + 1]

AllBuilt == Len(built) = Len(PlanOf(entry))

\* A fixture that does not use the cache: its setup up to use().
ConstructFixture ==
    /\ pc = "construct"
    /\ ~AllBuilt
    /\ NextFixture \notin CacheFixtures
    /\ opened' = opened \cup Creates(NextFixture)
    /\ built' = Append(built, NextFixture)
    /\ UNCHANGED <<files, now, pc, entry, authRole, cur, torn, closeLog,
                   seen, usable, loaded, logins, url, wrote, status, expected,
                   raised, error, tdError, shot, afterClear, cleared>>
    /\ refreshed' = "none"
    /\ UNCHANGED utilVars

\* A cache fixture starts: ensureAuthDirectory(), then the `if` on the
\* snapshot file.  The else branch of authFixtures.ts's page saves at once.
CheckSnapshot ==
    /\ pc = "construct"
    /\ ~AllBuilt
    /\ NextFixture \in CacheFixtures
    /\ cur' = NextFixture
    /\ LET ok == SnapshotUsable(NextFixture, authRole, files, now)
       IN  /\ seen' = FileAge(files, now, SnapshotFile(NextFixture, authRole))
           /\ usable' = IF ok THEN "yes" ELSE "no"
           /\ pc' = IF ok THEN "load"
                    ELSE IF PerformsLogin(NextFixture) THEN "open" ELSE "save"
    /\ afterClear' = (cleared \in Roles /\ cleared = SessionRole(NextFixture, authRole))
    /\ cleared' = "none"
    /\ refreshed' = "none"
    /\ UNCHANGED utilVars
    /\ UNCHANGED <<files, now, entry, authRole, built, torn, opened, closeLog,
                   loaded, logins, url, wrote, status, expected, raised, error,
                   tdError, shot>>

\* A catch block that throws an error of its own in place of the one caught.
Propagate_wrapped(fx, tag) ==
    IF fx = AF_authenticatedContext THEN "AuthenticationError" ELSE tag

\* What the caller of a fixture gets when `tag` is raised inside its setup:
\* authenticatedContext logs and rethrows it (catch (error) { throw error }),
\* the other fixtures catch nothing.
Propagate(fx, tag) == tag

\* An error leaves the setup of cur (or the setup script): the runner marks
\* the test failed, skips what is left and tears down what was built.
\* authenticatedContext closes the login page in its finally block.
SetupRaises(tag) ==
    /\ raised' = tag
    /\ error' = Propagate(cur, tag)
    /\ status' = "failed"
    /\ pc' = "teardown"
    /\ closeLog' = IF ClosesLoginPageOnError(cur) /\ "loginPage" \in opened
                     THEN Append(closeLog, "loginPage")
                     ELSE closeLog

\* The setup of cur is over: a fixture that hands out a page opens it, and
\* use() is reached.
SetupDone ==
    /\ opened' = opened \cup (IF OwnsContext(cur) THEN {"ctx"} ELSE {})
                        \cup (IF HandsPage(cur) THEN {"page"} ELSE {})
    /\ built' = Append(built, cur)
    /\ pc' = "construct"

\* if-branch: the context is built from the snapshot file.
LoadSnapshot ==
    /\ pc = "load"
    /\ LET snap == files[SnapshotFile(cur, authRole)]
       IN  IF LoadOutcome(cur, snap) = "ok"
             THEN /\ loaded' = snap
                  /\ SetupDone
                  /\ UNCHANGED <<closeLog, status, raised, error>>
             ELSE /\ SetupRaises(IF snap = Absent THEN "ENOENT" ELSE "addCookies")
                  /\ UNCHANGED <<loaded, opened, built>>
    /\ cleared' = "none"
    /\ refreshed' = "none"
    /\ UNCHANGED utilVars
    /\ UNCHANGED <<files, now, entry, authRole, cur, torn, seen, usable, logins,
                   url, wrote, expected, tdError, shot, afterClear>>

\* else-branch: browser.newContext(), context.newPage(), new LoginPage(page).
OpenLoginPage ==
    /\ pc = "open"
    /\ opened' = opened \cup {"ctx", "loginPage"}
    /\ pc' = "nav"
    /\ cleared' = "none"
    /\ refreshed' = "none"
    /\ UNCHANGED utilVars
    /\ UNCHANGED <<files, now, entry, authRole, cur, built, torn, closeLog,
                   seen, usable, loaded, logins, url, wrote, status, expected,
                   raised, error, tdError, shot, afterClear>>

\* loginPage.navigateToLoginPage(): the login flow starts; page.goto may raise.
NavigateToLoginPage(ok) ==
    /\ pc = "nav"
    /\ logins' = logins + 1
    /\ IF ok
         THEN /\ url' = "/Login"
              /\ pc' = "submit"
              /\ UNCHANGED <<closeLog, status, raised, error>>
         ELSE /\ SetupRaises("navigation")
              /\ UNCHANGED url
    /\ cleared' = "none"
    /\ refreshed' = "none"
    /\ UNCHANGED utilVars
    /\ UNCHANGED <<files, now, entry, authRole, cur, built, torn, opened,
                   seen, usable, loaded, wrote, expected, tdError, shot, afterClear>>

\* loginPage.loginWithCredentials(email, password): filling a field or the
\* click may raise; otherwise the site accepts the credentials and leaves
\* the login page, or rejects them and stays.
LoginWithCredentials(res) ==
    /\ pc = "submit"
    /\ IF res = "raise"
         THEN /\ SetupRaises("fill")
              /\ UNCHANGED url
         ELSE /\ url' = IF res = "accepted" THEN "/Home" ELSE "/Login"
              /\ pc' = "wait"
              /\ UNCHANGED <<closeLog, status, raised, error>>
    /\ cleared' = "none"
    /\ refreshed' = "none"
    /\ UNCHANGED utilVars
    /\ UNCHANGED <<files, now, entry, authRole, cur, built, torn, opened,
                   seen, usable, loaded, logins, wrote, expected, tdError, shot,
                   afterClear>>

\* page.waitForURL(url => !url...includes('Login'))
WaitForURL ==
    /\ pc = "wait"
    /\ IF waitForURL(cur, url) = "ok"
         THEN /\ pc' = "save"
              /\ UNCHANGED <<closeLog, status, raised, error>>
         ELSE SetupRaises("waitForURL")
    /\ cleared' = "none"
    /\ refreshed' = "none"
    /\ UNCHANGED utilVars
    /\ UNCHANGED <<files, now, entry, authRole, cur, built, torn, opened,
                   seen, usable, loaded, logins, url, wrote, expected, tdError, shot,
                   afterClear>>

\* Whether the context whose state is saved went through a login that left
\* the login page.
LoggedIn == logins > 0 /\ url = "/Home"

\* context.storageState({ path: authFile }).  A fixture with a login page
\* closes it next; authFixtures.ts's page goes on to use(); the setup script
\* ends, passed.
SaveState ==
    /\ pc = "save"
    /\ files' = storageState(files, now, SnapshotFile(cur, authRole),
                             CredentialRole(cur, authRole), LoggedIn)
    /\ wrote' = TRUE
    /\ IF OwnsContext(cur)
         THEN /\ pc' = "closeLogin"
              /\ UNCHANGED <<built, opened, status>>
         ELSE IF cur = setup_authenticate
           THEN /\ pc' = "teardown"
                /\ status' = "passed"
                /\ UNCHANGED <<built, opened>>
           ELSE /\ SetupDone
                /\ UNCHANGED status
    /\ cleared' = "none"
    /\ refreshed' = "none"
    /\ UNCHANGED utilVars
    /\ UNCHANGED <<now, entry, authRole, cur, torn, closeLog, seen, usable, loaded,
                   logins, url, expected, raised, error, tdError, shot, afterClear>>

\* page.close() of the login page, then use().
CloseLoginPage ==
    /\ pc = "closeLogin"
    /\ closeLog' = Append(closeLog, "loginPage")
    /\ SetupDone
    /\ cleared' = "none"
    /\ refreshed' = "none"
    /\ UNCHANGED utilVars
    /\ UNCHANGED <<files, now, entry, authRole, cur, torn, seen, usable, loaded,
                   logins, url, wrote, status, expected, raised, error, tdError, shot,
                   afterClear>>

\* ------------------------------------------------------------ test body

\* The body of the setup script: new LoginPage(page) on the test's page.
BeginSetupScript ==
    /\ pc = "construct"
    /\ AllBuilt
    /\ entry = setup_authenticate
    /\ cur' = setup_authenticate
    /\ pc' = "nav"
    /\ cleared' = "none"
    /\ refreshed' = "none"
    /\ UNCHANGED utilVars
    /\ UNCHANGED <<files, now, entry, authRole, built, torn, opened, closeLog,
                   seen, usable, loaded, logins, url, wrote, status, expected, raised, error,
                   tdError, shot, afterClear>>

\* The test body runs and ends with status s; exp is the test's expected
\* status ("failed" for a test marked test.fail()).  Only testFixture.ts's
\* page reads the two, so only its tests vary the expected status and tell a
\* timeout from a failure.
RunBody(s, exp) ==
    /\ pc = "construct"
    /\ AllBuilt
    /\ entry # setup_authenticate
    /\ (exp # "passed" \/ s = "timedOut") => entry = TF_page
    /\ status' = s
    /\ expected' = exp
    /\ error' = IF s = "passed" THEN "none" ELSE "body"
    /\ pc' = "teardown"
    /\ cleared' = "none"
    /\ refreshed' = "none"
    /\ UNCHANGED utilVars
    /\ UNCHANGED <<files, now, entry, authRole, cur, built, torn, opened,
                   closeLog, seen, raised, usable, loaded, logins, url, wrote,
                   tdError, shot, afterClear>>

\* -------------------------------------------------------------- teardown

\* The runner tears fixtures down in the reverse of their construction:
\* the fixture whose teardown is next.
TeardownFixtureOf(b, t) == b[Len(b) - Len(t)]

\* A capture decided on failure alone, whatever outcome was expected.
ShouldCapture_onFailure(st, exp) == st # "passed"

\* if (testInfo.status !== testInfo.expectedStatus)
ShouldCapture(st, exp) == st # exp

\* The code of a fixture after `await use(...)`, for every fixture but a
\* testFixture.ts page whose test did not end as expected.
TeardownFixture ==
    /\ pc = "teardown"
    /\ Len(torn) < Len(built)
    /\ LET f == TeardownFixtureOf(built, torn)
       IN  /\ f = TF_page => ~ShouldCapture(status, expected)
           /\ closeLog' = closeLog \o TeardownCloses(f)
           /\ torn' = Append(torn, f)
    /\ cleared' = "none"
    /\ refreshed' = "none"
    /\ UNCHANGED utilVars
    /\ UNCHANGED <<files, now, pc, entry, authRole, cur, built, opened, seen, usable,
                   loaded, logins, url, wrote, status, expected, raised, error,
                   tdError, shot, afterClear>>

\* An error leaves the teardown of fixture f: the runner records it, fails
\* a test that had passed, and goes on with the fixtures that are left.
TeardownRaises(f, tag) ==
    /\ tdError' = tag
    /\ status' = IF status = "passed" THEN "failed" ELSE status
    /\ torn' = Append(torn, f)
    /\ pc' = "teardown"

\* testFixture.ts's page, after use(): testInfo.status differs from
\* testInfo.expectedStatus, so page.screenshot({ fullPage: true }) is
\* awaited; nothing catches what it raises.
CaptureScreenshot(ok) ==
    /\ pc = "teardown"
    /\ Len(torn) < Len(built)
    /\ TeardownFixtureOf(built, torn) = TF_page
    /\ ShouldCapture(status, expected)
    /\ IF ok
         THEN /\ shot' = "taken"
              /\ pc' = "attach"
              /\ UNCHANGED <<torn, status, tdError>>
         ELSE /\ TeardownRaises(TF_page, "screenshot")
              /\ UNCHANGED shot
    /\ cleared' = "none"
    /\ refreshed' = "none"
    /\ UNCHANGED utilVars
    /\ UNCHANGED <<files, now, entry, authRole, cur, built, opened, closeLog,
                   seen, usable, loaded, logins, url, wrote, expected, raised, error,
                   afterClear>>

\* testInfo.attach('screenshot', { path }), then the console.log line.
AttachScreenshot(ok) ==
    /\ pc = "attach"
    /\ IF ok
         THEN /\ shot' = "attached"
              /\ torn' = Append(torn, TF_page)
              /\ pc' = "teardown"
              /\ UNCHANGED <<status, tdError>>
         ELSE /\ TeardownRaises(TF_page, "attach")
              /\ UNCHANGED shot
    /\ cleared' = "none"
    /\ refreshed' = "none"
    /\ UNCHANGED utilVars
    /\ UNCHANGED <<files, now, entry, authRole, cur, built, opened, closeLog,
                   seen, usable, loaded, logins, url, wrote, expected, raised, error,
                   afterClear>>

\* Every fixture that was built is torn down: the test is over.
EndTest ==
    /\ pc = "teardown"
    /\ Len(torn) = Len(built)
    /\ pc' = "done"
    /\ cleared' = "none"
    /\ refreshed' = "none"
    /\ UNCHANGED utilVars
    /\ UNCHANGED <<files, now, testVars>>

\* The worker turns to its next test.
NextTest ==
    /\ pc = "done"
    /\ pc' = "idle"
    /\ entry' = "none"
    /\ authRole' = "user"
    /\ cur' = "none"
    /\ built' = << >>
    /\ torn' = << >>
    /\ opened' = {}
    /\ closeLog' = << >>
    /\ seen' = "none"
    /\ raised' = "none"
    /\ usable' = "none"
    /\ loaded' = Absent
    /\ logins' = 0
    /\ url' = "none"
    /\ wrote' = FALSE
    /\ status' = "none"
    /\ expected' = "passed"
    /\ error' = "none"
    /\ tdError' = "none"
    /\ shot' = "none"
    /\ afterClear' = FALSE
    /\ cleared' = "none"
    /\ refreshed' = "none"
    /\ UNCHANGED utilVars
    /\ UNCHANGED <<files, now>>

\* -------------------------------------------------- helpers and utilities

\* What a call gives back: a value it returns or an error it raises.
Return(v) == [kind |-> "return", value |-> v]
Raise(e) == [kind |-> "raise", value |-> e]

\* How locator.isVisible({ timeout }) can end.
Visibility == {"visible", "hidden", "raise"}

\* A visibility test whose error counts as visible.
isVisibleOrFalse_errorIsVisible(res) == res # "hidden"

\* await locator.isVisible({ timeout: 2000 }).catch(() => false)
isVisibleOrFalse(res) == res = "visible"

\* AuthHelper.isAuthenticated(page).  locatorRaises: page.locator(...)
\* raises (no page); logout and profile: how the two isVisible calls end.
\* The outer catch returns false.
isAuthenticated(locatorRaises, logout, profile) ==
    IF locatorRaises
      THEN Return(FALSE)
      ELSE LET hasLogout == isVisibleOrFalse(logout)
               hasProfile == isVisibleOrFalse(profile)
           IN  Return(hasLogout \/ hasProfile)

\* A test or helper calls AuthHelper.isAuthenticated(page).
IsAuthenticated(locatorRaises, logout, profile) ==
    /\ call' = [op |-> "isAuthenticated",
                arg |-> <<locatorRaises, logout, profile>>,
                ret |-> isAuthenticated(locatorRaises, logout, profile)]
    /\ UNCHANGED workerVars
    /\ UNCHANGED pageVars
    /\ UNCHANGED cfgVars
    /\ UNCHANGED genVars

\* Strings are sequences of characters; these are the strings of the model.
Chars == {"a", "b"}
MaxLen == 5
Strings == UNION {[1..n -> Chars] : n \in 0..MaxLen}

\* The values of visibleChars the model passes, and the default.
MaxVisible == 6
DefaultVisibleChars == 4

Min(a, b) == IF a <= b THEN a ELSE b
Max(a, b) == IF a >= b THEN a ELSE b

\* String.prototype.repeat, for count >= 0
repeat(c, count) == [i \in 1..count |-> c]

\* String.prototype.slice(start): a negative start counts from the end,
\* and -0 is 0, the start of the string.
slice(data, start) ==
    LET from == IF start < 0 THEN Max(Len(data) + start, 0) ELSE Min(start, Len(data))
    IN  SubSeq(data, from + 1, Len(data))

\* String.prototype.substring(start, end), for 0 <= start <= end
substring(data, start, end) == SubSeq(data, start + 1, Min(end, Len(data)))

\* TestDataManager.maskSensitiveData(data, visibleChars)
maskSensitiveData(data, visibleChars) ==
    IF Len(data) <= visibleChars
      THEN data
      ELSE repeat("*", Len(data) - visibleChars) \o slice(data, -visibleChars)

\* A caller masks a string for a log line.
MaskSensitiveData(data, visibleChars) ==
    /\ call' = [op |-> "maskSensitiveData",
                arg |-> <<data, visibleChars>>,
                ret |-> maskSensitiveData(data, visibleChars)]
    /\ UNCHANGED workerVars
    /\ UNCHANGED pageVars
    /\ UNCHANGED cfgVars
    /\ UNCHANGED genVars

\* The passwords of the model: a short one and one of full length.
Passwords == {repeat("b", 1), repeat("a", MaxLen)}

\* The two LoginPage classes of the repository, by the file they are in.
LoginPageClasses == {"loginPage.ts", "basePage.ts"}

\* What LoginPage.loginWithCredentials(email, password) writes to the log
\* of the credentials: the class in basePage.ts logs the masked email in
\* loginWithCredentials and again in fillEmail, and no password; the class
\* in loginPage.ts logs nothing.
loginWithCredentialsLog(cls, email, passwd) ==
    IF cls = "basePage.ts"
      THEN <<maskSensitiveData(email, DefaultVisibleChars),
             maskSensitiveData(email, DefaultVisibleChars)>>
      ELSE << >>

\* What AuthHelper.login(page, email, password) writes to the log of the
\* credentials: logger.info(`Logging in as: ${email}`), then the lines of
\* loginWithCredentials.
loginLog(cls, email, passwd) ==
    <<email>> \o loginWithCredentialsLog(cls, email, passwd)

\* AuthHelper.login(page, email, password), with the LoginPage class cls.
AuthHelperLogin(cls, email, passwd) ==
    /\ call' = [op |-> "login",
                arg |-> <<email, passwd>>,
                ret |-> loginLog(cls, email, passwd)]
    /\ UNCHANGED workerVars
    /\ UNCHANGED pageVars
    /\ UNCHANGED cfgVars
    /\ UNCHANGED genVars

\* What BasePage.fill(locator, value) writes to the log of value:
\* logger.debug(`Filled value: ${value.substring(0, 20)}...`)
fillLog(value) == <<substring(value, 0, 20)>>

\* What BasePage.click, fill and selectOption do to the locator, in
\* order.  In click the call of scrollIntoViewIfNeeded is commented out.
clickOps == <<"click", "waitForLoadingToComplete">>
fillOps == <<"scrollIntoViewIfNeeded", "clear", "fill">>
selectOptionOps == <<"scrollIntoViewIfNeeded", "selectOption">>

\* BasePage.click(locator, description)
Click ==
    /\ run = NoRun
    /\ call' = [op |-> "click", arg |-> << >>, ret |-> Return("undefined")]
    /\ trace' = clickOps
    /\ UNCHANGED <<run, page>>
    /\ UNCHANGED workerVars
    /\ UNCHANGED genVars
    /\ UNCHANGED cfgVars

\* BasePage.selectOption(locator, value)
SelectOption ==
    /\ run = NoRun
    /\ call' = [op |-> "selectOption", arg |-> << >>, ret |-> Return("undefined")]
    /\ trace' = selectOptionOps
    /\ UNCHANGED <<run, page>>
    /\ UNCHANGED workerVars
    /\ UNCHANGED genVars
    /\ UNCHANGED cfgVars

\* BasePage.fill(locator, value, description)
Fill(value) ==
    /\ run = NoRun
    /\ call' = [op |-> "fill", arg |-> <<value>>, ret |-> fillLog(value)]
    /\ trace' = fillOps
    /\ UNCHANGED <<run, page>>
    /\ UNCHANGED workerVars
    /\ UNCHANGED cfgVars
    /\ UNCHANGED genVars

\* ------------------------------------------------------- fixed test data

\* data/testdata/users.json as loadData can find it: absent, not JSON,
\* with both entries, or without invalidUsers.
UsersFiles == {"absent", "malformed", "full", "noInvalidUsers"}

\* JSON.parse of the file's text
parse(file) ==
    [validUser |-> "validUser",
     hasInvalidUsers |-> file = "full",
     invalidUsers |-> IF file = "full" THEN <<"invalidUser">> ELSE << >>]

\* TestDataManager.loadData(fileName): an absent file is an Error thrown
\* inside the try; the catch logs and rethrows whatever was thrown.
loadData(file) ==
    CASE file = "absent" -> Raise("Test data file not found")
      [] file = "malformed" -> Raise("SyntaxError")
      [] OTHER -> Return(parse(file))

\* A getter that falls back to an empty object, as getTestScenario does.
getTestUsers_orEmpty(file) ==
    IF loadData(file).kind = "raise"
      THEN Return([validUser |-> "undefined", hasInvalidUsers |-> FALSE,
                   invalidUsers |-> << >>])
      ELSE loadData(file)

\* TestDataManager.getTestUsers()
getTestUsers(file) == loadData(file)

\* TestDataManager.getValidUser()
getValidUser(file) ==
    LET users == getTestUsers(file)
    IN  IF users.kind = "raise" THEN users ELSE Return(users.value.validUser)

\* TestDataManager.getInvalidUsers(): users.invalidUsers || []
getInvalidUsers(file) ==
    LET users == getTestUsers(file)
    IN  IF users.kind = "raise"
          THEN users
          ELSE Return(IF users.value.hasInvalidUsers
                        THEN users.value.invalidUsers ELSE << >>)

\* The testData fixture of testFixture.ts up to use(data): it calls
\* getValidUser, then getInvalidUsers, and reads data.validUser.email for
\* the log; an error leaves the fixture's setup.
testData(file) ==
    LET validUser == getValidUser(file)
        invalidUsers == getInvalidUsers(file)
    IN  IF validUser.kind = "raise" THEN validUser
        ELSE IF invalidUsers.kind = "raise" THEN invalidUsers
        ELSE IF validUser.value = "undefined" THEN Raise("TypeError")
        ELSE Return("use")

DataOps == {"getTestUsers", "getValidUser", "getInvalidUsers", "testData"}

\* One of the operations on the fixed users is called.
LoadUsers(op, file) ==
    /\ call' = [op |-> op,
                arg |-> <<file>>,
                ret |-> CASE op = "getTestUsers" -> getTestUsers(file)
                          [] op = "getValidUser" -> getValidUser(file)
                          [] op = "getInvalidUsers" -> getInvalidUsers(file)
                          [] op = "testData" -> testData(file)]
    /\ UNCHANGED workerVars
    /\ UNCHANGED pageVars
    /\ UNCHANGED cfgVars
    /\ UNCHANGED genVars

\* ---------------------------------------------- generateStrongPassword

\* The four pools of generateStrongPassword, each with one of its
\* characters, and `all`, their concatenation.
uppercase == <<"A">>
lowercase == <<"a">>
numbers == <<"0">>
special == <<"!">>
all == uppercase \o lowercase \o numbers \o special

\* The explicit length arguments of the model, and the default length.
MaxPwLen == 6
DefaultLength == 12

\* pool[Math.floor(Math.random() * pool.length)]; r counts from 1.
pick(pool, r) == pool[r]

\* A generator that takes its first four characters from `all`.
GuaranteedPool_all(k) == all

\* The pool the k-th guaranteed character comes from.
GuaranteedPool(k) ==
    CASE k = 1 -> uppercase
      [] k = 2 -> lowercase
      [] k = 3 -> numbers
      [] k = 4 -> special

\* generateStrongPassword(length) starts: let password = ''.
BeginGenerateStrongPassword(length) ==
    /\ pwLen = -1
    /\ pwLen' = length
    /\ password' = << >>
    /\ call' = NoCall
    /\ UNCHANGED workerVars
    /\ UNCHANGED pageVars
    /\ UNCHANGED cfgVars

\* generateRandomUser() calls generateStrongPassword() for the password of
\* the user: the length is the default.
GenerateRandomUser == BeginGenerateStrongPassword(DefaultLength)

\* password += uppercase[...], lowercase[...], numbers[...], special[...]
PickGuaranteed(r) ==
    /\ pwLen # -1
    /\ Len(password) < 4
    /\ r \in 1..Len(GuaranteedPool(Len(password) + 1))
    /\ password' = Append(password, pick(GuaranteedPool(Len(password) + 1), r))
    /\ UNCHANGED <<call, pwLen, workerVars>>
    /\ UNCHANGED pageVars
    /\ UNCHANGED cfgVars

\* for (let i = 4; i < length; i++) password += all[...]
FillRest(r) ==
    /\ pwLen # -1
    /\ Len(password) >= 4
    /\ Len(password) < pwLen
    /\ password' = Append(password, pick(all, r))
    /\ UNCHANGED <<call, pwLen, workerVars>>
    /\ UNCHANGED pageVars
    /\ UNCHANGED cfgVars

Rotation(n, k) == [i \in 1..n |-> ((i + k - 1) % n) + 1]
Reversal(n) == [i \in 1..n |-> n + 1 - i]

\* The orders sort(() => Math.random() - 0.5) can leave n characters in:
\* every permutation.  For a password longer than MaxPwLen the model takes
\* the identity, two rotations and the reversal.
Shuffles(n) ==
    IF n <= MaxPwLen
      THEN Permutations(1..n)
      ELSE {Rotation(n, 0), Rotation(n, 4), Rotation(n, 8), Reversal(n)}

\* password.split('').sort(...).join('') under the order perm
shuffle(pw, perm) == [i \in 1..Len(pw) |-> pw[perm[i]]]

\* The loop is over: the password is shuffled and returned.
ShuffleAndReturn(perm) ==
    /\ pwLen # -1
    /\ Len(password) >= 4
    /\ Len(password) >= pwLen
    /\ perm \in Shuffles(Len(password))
    /\ call' = [op |-> "generateStrongPassword",
                arg |-> <<pwLen>>,
                ret |-> shuffle(password, perm)]
    /\ password' = << >>
    /\ pwLen' = -1
    /\ UNCHANGED workerVars
    /\ UNCHANGED pageVars
    /\ UNCHANGED cfgVars

\* -------------------------------------------------- generateRandomUser

\* The characters one call of generateStrongPassword(length) draws before
\* it shuffles: the four guaranteed ones, then length - 4 from `all`, the
\* i-th of them all[rest[i]].
drawn(length, rest) ==
    [i \in 1..Max(length, 4) |->
        IF i <= 4 THEN pick(GuaranteedPool(i), 1) ELSE pick(all, rest[i - 4])]

\* The draws of the model for the rest of a default-length password: the
\* same character of `all` every time, the first or the second.
RestDraws == {[i \in 1..(DefaultLength - 4) |-> r] : r \in 1..2}

\* What this.generateStrongPassword() can return to generateRandomUser.
StrongPasswords ==
    {shuffle(drawn(DefaultLength, rest), perm) :
        rest \in RestDraws, perm \in Shuffles(DefaultLength)}

\* The record generateRandomUser returns, its two passwords the results of
\* its two calls of generateStrongPassword; the other fields come from
\* faker and are left out.
generateRandomUser(first_pw, second_pw) ==
    [password |-> first_pw, confirmPassword |-> second_pw]

\* RegisterPage.fillRegistrationForm(data): what it types into the password
\* field and into the confirmation field.
fillRegistrationForm(data) ==
    [passwordInput |-> data.password,
     confirmPasswordInput |-> data.confirmPassword]

\* A test takes a random user and fills the registration form from it.
FillFormFromRandomUser(first_pw, second_pw) ==
    /\ LET user == generateRandomUser(first_pw, second_pw)
       IN  call' = [op |-> "generateRandomUser",
                    arg |-> << >>,
                    ret |-> [user |-> user, form |-> fillRegistrationForm(user)]]
    /\ UNCHANGED workerVars
    /\ UNCHANGED pageVars
    /\ UNCHANGED cfgVars
    /\ UNCHANGED genVars

\* ---------------------------------------------------- EnvironmentConfig

\* A JavaScript number: NaN or an integer.
NaN == [nan |-> TRUE, n |-> 0]
Num(k) == [nan |-> FALSE, n |-> k]

\* Number(process.env.X) for the values of the model: undefined and text
\* that is no number give NaN, the empty string gives 0.
Number(v) ==
    CASE v = "unset" -> NaN
      [] v = "" -> Num(0)
      [] v = "0" -> Num(0)
      [] v = "3" -> Num(3)
      [] v = "5000" -> Num(5000)
      [] OTHER -> NaN

\* x || d for a string that may be undefined, and for a number
StringOr(v, d) == IF v \in {"unset", ""} THEN d ELSE v
NumberOr(x, d) == IF x.nan \/ x.n = 0 THEN d ELSE x.n

\* The .env files dotenv.config can find: none, or one that sets two
\* variables.
DotenvFiles ==
    {[v \in EnvVars |-> "unset"],
     [v \in EnvVars |-> CASE v = "BASE_URL" -> "https://base/"
                          [] v = "TIMEOUT" -> "5000"
                          [] OTHER -> "unset"]}

\* dotenv.config(): a variable of the file is set in process.env unless
\* process.env has it already.
dotenvConfig(penv, file) ==
    [v \in EnvVars |-> IF penv[v] = "unset" THEN file[v] ELSE penv[v]]

\* new EnvironmentConfig(), the id-th object constructed, on process.env
EnvironmentConfig(id, penv) ==
    [id |-> id,
     env |-> StringOr(penv["TEST_ENV"], "qa"),
     baseURL |-> StringOr(penv["BASE_URL"], "https://bioal.thrivewellrx.com/"),
     apiURL |-> StringOr(penv["API_URL"], "https://api.bioal.thrivewellrx.com/"),
     timeout |-> NumberOr(Number(penv["TIMEOUT"]), 30000),
     retries |-> NumberOr(Number(penv["RETRIES"]), 2)]

\* A getInstance that constructs on every call.
NeedsConstruction_always(inst) == TRUE

\* if (!EnvironmentConfig.instance)
NeedsConstruction(inst) == inst = NoInstance

\* EnvironmentConfig.getInstance(); file is the .env file the constructor
\* finds if it runs.  The call records the process.env the constructor
\* read, if it ran.
GetInstance(file) ==
    /\ IF NeedsConstruction(instance)
         THEN /\ environ' = dotenvConfig(environ, file)
              /\ constructed' = constructed + 1
              /\ instance' = EnvironmentConfig(constructed + 1, environ')
         ELSE UNCHANGED <<environ, constructed, instance>>
    /\ first' = IF first = NoInstance THEN instance' ELSE first
    /\ call' = [op |-> "getInstance",
                arg |-> IF NeedsConstruction(instance) THEN <<environ'>> ELSE << >>,
                ret |-> instance']
    /\ UNCHANGED workerVars
    /\ UNCHANGED pageVars
    /\ UNCHANGED genVars

\* The process changes one of its environment variables.
SetEnv(v, value) ==
    /\ environ[v] # value
    /\ environ' = [environ EXCEPT ![v] = value]
    /\ UNCHANGED <<instance, constructed, first, call>>
    /\ UNCHANGED workerVars
    /\ UNCHANGED pageVars
    /\ UNCHANGED genVars

\* ------------------------------------------------------------ page objects

\* BasePage.waitForPageLoad() is called: the race between
\* waitForLoadState('domcontentloaded') and
\* waitForLoadState('networkidle', { timeout: 5000 }).catch(() => {}) starts.
WaitForPageLoad ==
    /\ run = NoRun
    /\ run' = [m |-> "waitForPageLoad", pc |-> "race",
               dom |-> "pending", idle |-> "pending"]
    /\ trace' = << >>
    /\ call' = NoCall
    /\ UNCHANGED page
    /\ UNCHANGED workerVars
    /\ UNCHANGED genVars
    /\ UNCHANGED cfgVars

\* Promise.race: the first promise to settle settles the race.  A promise
\* that fulfils lets waitForPageLoad go on to the spinner.
RaceWon == [run EXCEPT !.pc = IF run.pc = "race" THEN "spinner" ELSE run.pc]

\* What waitForPageLoad gives back: nothing, whatever happened inside (the
\* catch only logs a warning).
waitForPageLoadResult(dom, idle, spinner) == Return("undefined")

\* The DOM-ready signal arrives, or waitForLoadState('domcontentloaded')
\* rejects.  A rejection while the race is on goes to the catch of
\* waitForPageLoad, which logs a warning and returns.
DomContentLoaded(ok) ==
    /\ run.m = "waitForPageLoad"
    /\ run.dom = "pending"
    /\ trace' = Append(trace, IF ok THEN "domcontentloaded" ELSE "domcontentloaded failed")
    /\ IF ~ok /\ run.pc = "race"
         THEN /\ run' = NoRun
              /\ call' = [op |-> "waitForPageLoad",
                          arg |-> <<"failed", run.idle, "none">>,
                          ret |-> waitForPageLoadResult("failed", run.idle, "none")]
         ELSE /\ run' = [[run EXCEPT !.dom = IF ok THEN "done" ELSE "failed"]
                            EXCEPT !.pc = IF ok THEN RaceWon.pc ELSE run.pc]
              /\ UNCHANGED call
    /\ UNCHANGED page
    /\ UNCHANGED workerVars
    /\ UNCHANGED genVars
    /\ UNCHANGED cfgVars

\* The network-idle signal arrives (idle = TRUE) or its 5000 ms timeout
\* elapses; .catch(() => {}) turns the timeout into a fulfilment.
NetworkIdle(idle) ==
    /\ run.m = "waitForPageLoad"
    /\ run.idle = "pending"
    /\ trace' = Append(trace, IF idle THEN "networkidle" ELSE "networkidle timeout")
    /\ run' = [[run EXCEPT !.idle = IF idle THEN "done" ELSE "timeout"]
                  EXCEPT !.pc = RaceWon.pc]
    /\ UNCHANGED <<call, page>>
    /\ UNCHANGED workerVars
    /\ UNCHANGED genVars
    /\ UNCHANGED cfgVars

\* waitForLoadingToComplete(): the spinner is hidden, or waitFor times out
\* and the empty catch drops the error.
waitForLoadingToComplete(hidden) == Return("undefined")

\* waitForPageLoad awaits waitForLoadingToComplete() and returns.
SpinnerThenReturn(hidden) ==
    /\ run.m = "waitForPageLoad"
    /\ run.pc = "spinner"
    /\ waitForLoadingToComplete(hidden).kind = "return"
    /\ trace' = Append(trace, IF hidden THEN "spinner hidden" ELSE "spinner timeout")
    /\ call' = [op |-> "waitForPageLoad",
                arg |-> <<run.dom, run.idle, IF hidden THEN "hidden" ELSE "timeout">>,
                ret |-> waitForPageLoadResult(run.dom, run.idle,
                                              IF hidden THEN "hidden" ELSE "timeout")]
    /\ run' = NoRun
    /\ UNCHANGED page
    /\ UNCHANGED workerVars
    /\ UNCHANGED genVars
    /\ UNCHANGED cfgVars

\* LoginPage.checkRememberLogin() on a checkbox in state box: the class in
\* loginPage.ts calls check(), which leaves the box checked; the class in
\* basePage.ts calls click(), which toggles it.
checkRememberLogin(cls, box) == IF cls = "loginPage.ts" THEN TRUE ELSE ~box

\* A test calls loginPage.checkRememberLogin().
CheckRememberLogin(cls) ==
    /\ run = NoRun
    /\ page' = [page EXCEPT !.remember = checkRememberLogin(cls, page.remember)]
    /\ trace' = <<"checkRememberLogin">>
    /\ call' = [op |-> "checkRememberLogin",
                arg |-> <<cls, page.remember>>,
                ret |-> Return("undefined")]
    /\ UNCHANGED run
    /\ UNCHANGED workerVars
    /\ UNCHANGED genVars
    /\ UNCHANGED cfgVars

\* What LoginPage.loginWithCredentials(email, password, remember) does, in
\* order.  clickLogin clicks the button and awaits waitForPageLoad().
loginWithCredentialsOps(remember) ==
    <<"fillEmail", "fillPassword">>
        \o (IF remember THEN <<"checkRememberLogin">> ELSE << >>)
        \o <<"clickLogin", "waitForPageLoad">>

\* How the site answers the submitted form.
Responses == {"accepted", "rejected"}

\* The URL of the page when clickLogin is over.
urlAfterSubmit(response) == IF response = "accepted" THEN "/Home" ELSE "/Login"

\* A test calls loginPage.loginWithCredentials(email, password, remember).
\* The value returned in the model is the state of the checkbox when the
\* form was submitted.
LoginWithCredentialsCall(cls, remember, response) ==
    /\ run = NoRun
    /\ LET box == IF remember THEN checkRememberLogin(cls, page.remember)
                              ELSE page.remember
       IN  /\ page' = [url |-> urlAfterSubmit(response), remember |-> box]
           /\ call' = [op |-> "loginWithCredentials",
                       arg |-> <<cls, remember, response, page.remember>>,
                       ret |-> Return(box)]
    /\ trace' = loginWithCredentialsOps(remember)
    /\ UNCHANGED run
    /\ UNCHANGED workerVars
    /\ UNCHANGED genVars
    /\ UNCHANGED cfgVars

\* The page is opened again on the login form (navigateToLoginPage).
NavigateToLogin ==
    /\ run = NoRun
    /\ page' = [url |-> "/Login", remember |-> FALSE]
    /\ page' # page
    /\ trace' = <<"navigateTo">>
    /\ call' = NoCall
    /\ UNCHANGED run
    /\ UNCHANGED workerVars
    /\ UNCHANGED genVars
    /\ UNCHANGED cfgVars

\* ------------------------------------------------------------ retryAction

\* The values of maxRetries the model passes, the attempts whose outcome it
\* draws, and the values of delayMs.
MaxRetriesBound == 3
RetryCounts == -1..MaxRetriesBound
Delays == {0, 1000}

\* What happened during a retryAction call: the action was invoked for the
\* n-th time, or waitForTimeout(n) was awaited.
Invoked(n) == [e |-> "action", n |-> n]
Waited(n) == [e |-> "wait", n |-> n]

\* The error the action raises at its n-th invocation, and the error
\* thrown after the loop.
ActionError(n) == [msg |-> "action failed", attempt |-> n]
MaxRetriesExceeded == [msg |-> "Max retries exceeded", attempt |-> 0]

\* A loop that gives up one attempt early.
LastAttempt_early(attempt, maxRetries) == attempt = maxRetries - 1

\* if (attempt === maxRetries)
LastAttempt(attempt, maxRetries) == attempt = maxRetries

\* The loop of retryAction from `attempt` on; succeeds[k] tells whether the
\* k-th invocation of the action succeeds, events is what happened so far.
\* The result is the events and what retryAction gives back.
RECURSIVE retryLoop(_, _, _, _, _)
retryLoop(attempt, succeeds, maxRetries, delayMs, events) ==
    IF ~(attempt <= maxRetries)
      THEN [events |-> events, out |-> Raise(MaxRetriesExceeded)]
      ELSE LET invoked == Append(events, Invoked(attempt))
           IN  IF succeeds[attempt]
                 THEN [events |-> invoked, out |-> Return(attempt)]
                 ELSE IF LastAttempt(attempt, maxRetries)
                   THEN [events |-> invoked, out |-> Raise(ActionError(attempt))]
                   ELSE retryLoop(attempt + 1, succeeds, maxRetries, delayMs,
                                  Append(invoked, Waited(delayMs * attempt)))

\* BasePage.retryAction(action, maxRetries, delayMs)
retryAction(succeeds, maxRetries, delayMs) ==
    retryLoop(1, succeeds, maxRetries, delayMs, << >>)

\* A page object calls retryAction (clickWithRetry does, with the click as
\* the action).
RetryAction(succeeds, maxRetries, delayMs) ==
    /\ run = NoRun
    /\ LET r == retryAction(succeeds, maxRetries, delayMs)
       IN  /\ call' = [op |-> "retryAction",
                       arg |-> <<succeeds, maxRetries, delayMs>>,
                       ret |-> r.out]
           /\ trace' = r.events
    /\ UNCHANGED <<run, page>>
    /\ UNCHANGED workerVars
    /\ UNCHANGED genVars
    /\ UNCHANGED cfgVars

\* ---------------------------------------------------------- specification

Next ==
    \/ Tick
    \/ \E r \in Roles, ok \in BOOLEAN : PeerClearAuthState(r, ok)
    \/ \E r \in Roles : PeerSaveState(r)
    \/ \E r \in Roles, ok \in BOOLEAN : ClearAuthState(r, ok)
    \/ \E okUser \in BOOLEAN, okAdmin \in BOOLEAN : ClearAllAuthStates(okUser, okAdmin)
    \/ \E r \in Roles, ok \in BOOLEAN, res \in LoginResults : RefreshAuth(r, ok, res)
    \/ \E e \in Entries, r \in Roles : StartTest(e, r)
    \/ ConstructFixture
    \/ CheckSnapshot
    \/ LoadSnapshot
    \/ OpenLoginPage
    \/ \E ok \in BOOLEAN : NavigateToLoginPage(ok)
    \/ \E res \in {"accepted", "rejected", "raise"} : LoginWithCredentials(res)
    \/ WaitForURL
    \/ SaveState
    \/ CloseLoginPage
    \/ BeginSetupScript
    \/ \E s \in Statuses, exp \in {"passed", "failed"} : RunBody(s, exp)
    \/ TeardownFixture
    \/ \E ok \in BOOLEAN : CaptureScreenshot(ok)
    \/ \E ok \in BOOLEAN : AttachScreenshot(ok)
    \/ EndTest
    \/ NextTest

Spec == Init /\ [][Next]_vars

\* The helpers and utilities, called in any order with any arguments.
UtilNext ==
    \/ \E lr \in BOOLEAN, lo \in Visibility, pr \in Visibility : IsAuthenticated(lr, lo, pr)
    \/ \E d \in Strings, n \in 0..MaxVisible : MaskSensitiveData(d, n)
    \/ \E cls \in LoginPageClasses, e \in Strings, pw \in Passwords : AuthHelperLogin(cls, e, pw)
    \/ \E v \in Strings : Fill(v)
    \/ \E op \in DataOps, file \in UsersFiles : LoadUsers(op, file)
    \/ \E first_pw \in StrongPasswords, second_pw \in StrongPasswords :
          FillFormFromRandomUser(first_pw, second_pw)

UtilSpec == Init /\ [][UtilNext]_vars

\* The generation of passwords, for explicit lengths and for the default.
PasswordNext ==
    \/ \E length \in 0..MaxPwLen : BeginGenerateStrongPassword(length)
    \/ GenerateRandomUser
    \/ \E r \in 1..Len(all) : PickGuaranteed(r)
    \/ \E r \in 1..Len(all) : FillRest(r)
    \/ \E perm \in Shuffles(Len(password)) : ShuffleAndReturn(perm)

PasswordSpec == Init /\ [][PasswordNext]_vars

\* The configuration singleton in a process that changes its environment.
ConfigNext ==
    \/ \E file \in DotenvFiles : GetInstance(file)
    \/ \E v \in EnvVars : \E value \in EnvValues(v) : SetEnv(v, value)

ConfigSpec == Init /\ [][ConfigNext]_vars

\* The page objects, their methods called one after the other.
PageNext ==
    \/ WaitForPageLoad
    \/ \E ok \in BOOLEAN : DomContentLoaded(ok)
    \/ \E idle \in BOOLEAN : NetworkIdle(idle)
    \/ \E hidden \in BOOLEAN : SpinnerThenReturn(hidden)
    \/ \E cls \in LoginPageClasses : CheckRememberLogin(cls)
    \/ \E cls \in LoginPageClasses, remember \in BOOLEAN, response \in Responses :
          LoginWithCredentialsCall(cls, remember, response)
    \/ NavigateToLogin
    \/ Click
    \/ SelectOption
    \/ \E v \in Strings : Fill(v)
    \/ \E succeeds \in [1..MaxRetriesBound -> BOOLEAN],
          maxRetries \in RetryCounts, delayMs \in Delays :
          RetryAction(succeeds, maxRetries, delayMs)

PageSpec == Init /\ [][PageNext]_vars

\* ----------------------------------------------------------------- claims

Range(q) == {q[i] : i \in 1..Len(q)}

RECURSIVE Reverse(_)
Reverse(q) == IF q = << >> THEN << >> ELSE Append(Reverse(Tail(q)), Head(q))

\* The fixture cur acquires the session of a role (every cache fixture but
\* authFixtures.ts's page), and its setup reached use().
RoleFixture == cur \in CacheFixtures /\ SessionRole(cur, authRole) \in Roles
Acquired == RoleFixture /\ cur \in Range(built)

\* The login flow of cur is over, with or without success.
LoginFlowOver ==
    \/ pc \in {"save", "closeLogin"}
    \/ cur \in Range(built)
    \/ raised \in {"navigation", "fill", "waitForURL"}

\* C1: a fixture that acquires the session of a role and finds the role's
\* snapshot file at or past the max-age does not load it; when its setup
\* is over it has run one login flow and has overwritten the file.
C1_StaleSnapshotNeverLoaded ==
    (RoleFixture /\ seen = "stale") =>
        /\ usable = "no"
        /\ loaded = Absent
        /\ Acquired => (logins = 1 /\ wrote)

\* C2: a fixture that acquires the session of a role and finds no snapshot
\* file runs exactly one login flow; when the login succeeds, the step that
\* saves the state leaves the role's snapshot file on disk, written now from
\* the logged-in context.
C2_NoSnapshotOneLogin ==
    /\ [](RoleFixture /\ seen = "absent" =>
            /\ usable = "no"
            /\ logins <= 1
            /\ LoginFlowOver => logins = 1
            /\ Acquired => wrote)
    /\ [][(RoleFixture /\ seen = "absent" /\ pc = "save" /\ pc' # "save") =>
            files'[SnapshotFile(cur, authRole)] =
                [mtime |-> now, by |-> CredentialRole(cur, authRole), authed |-> TRUE]]_vars

\* C2's case: the file was absent, the login succeeded and the file is there.
C2_Witness ==
    /\ Acquired
    /\ seen = "absent"
    /\ logins = 1
    /\ wrote
    /\ existsSync(files, SnapshotFile(cur, authRole))

\* C3: a fixture that finds its snapshot file younger than the max-age
\* never opens the login page: it runs no login flow, and the context it
\* hands out was built from the snapshot.  No test runs more than one login
\* flow, so two acquisitions of which the second finds the file fresh run at
\* most one.
C3_FreshSnapshotNoLogin ==
    /\ logins <= 1
    /\ (cur \in CacheFixtures /\ seen = "fresh") =>
          /\ usable = "yes"
          /\ logins = 0
          /\ url = "none"
          /\ "loginPage" \notin opened
          /\ ~wrote
          /\ cur \in Range(built) => loaded # Absent

\* C3's case: a fresh snapshot was loaded and the test ran to its end.
C3_Witness ==
    /\ Acquired
    /\ seen = "fresh"
    /\ loaded # Absent
    /\ logins = 0
    /\ pc = "done"

LoginErrors == {"navigation", "fill", "waitForURL"}

\* C4: when the login flow of a fixture raises (the navigation, filling
\* the form, or the wait for the URL), the fixture has written no snapshot
\* file and never reaches use(), and the runner gets the very error that
\* was raised and fails the test.
C4_FailedLoginWritesNothing ==
    raised \in LoginErrors =>
        /\ ~wrote
        /\ cur \notin Range(built)
        /\ error = raised
        /\ status = "failed"

\* C4's case: the wait for the URL timed out in the login of
\* authenticatedContext or of userPage, and the test is over.
C4_Witness ==
    /\ raised = "waitForURL"
    /\ cur \in {AF_authenticatedContext, AF_userPage}
    /\ pc = "done"

\* C5: every snapshot file was written from a context that had completed a
\* login (the URL had left the login path).
C5_SnapshotOnlyAfterLogin ==
    /\ wrote => LoggedIn
    /\ \A f \in Files : existsSync(files, f) => files[f].authed

\* C6: the snapshot a fixture loads for the session of role R was produced
\* by a login with R's credentials.
C6_SnapshotOfOwnRole ==
    (RoleFixture /\ loaded # Absent) => loaded.by = SessionRole(cur, authRole)

\* C7: a fixture whose check comes right after clearAuthState of its role
\* runs a login flow: it does not load the snapshot.
C7_ClearThenAcquireLogsIn ==
    afterClear => (usable = "no" /\ loaded = Absent)

\* C8: the setup of a fixture never fails because the snapshot file was
\* removed between the validity check and the load.
C8_NoFailureOnRemovedFile ==
    raised # "ENOENT"

IsPrefix(p, q) == Len(p) <= Len(q) /\ SubSeq(q, 1, Len(p)) = p

\* In closeLog, every b comes after an a.
ClosedBefore(a, b) ==
    \A j \in 1..Len(closeLog) :
        closeLog[j] = b => \E i \in 1..(j - 1) : closeLog[i] = a

C10_ScreenshotErrorSuppressed ==
    tdError = "none"

C12_RefreshLeavesFreshSnapshot ==
    refreshed \in Roles =>
        /\ existsSync(files, AuthFileOf(refreshed))
        /\ files[AuthFileOf(refreshed)].mtime = now
        /\ files[AuthFileOf(refreshed)].by = refreshed

\* C13: the session snapshots on disk are the files of the roles, one file
\* for a role: every snapshot file that exists is the AuthFileOf of some
\* role, and no two files hold a session of the same role.
C13_OneSnapshotFilePerRole ==
    /\ \A f \in Files : existsSync(files, f) => \E r \in Roles : f = AuthFileOf(r)
    /\ \A r \in Roles :
          Cardinality({f \in Files : existsSync(files, f) /\ files[f].by = r}) <= 1

\* C14: when clearAuthState(role) has returned, the snapshot file of role
\* is absent (so that a second call finds nothing to do and changes nothing).
C14_ClearLeavesFileAbsent ==
    cleared \in Roles => ~existsSync(files, AuthFileOf(cleared))

\* C15: isAuthenticated(page) never raises; it returns true exactly when
\* one of the two visibility checks reported the control visible, an error
\* or a timeout of a check counting as not visible.
C15_IsAuthenticatedNeverRaises ==
    call.op = "isAuthenticated" =>
        /\ call.ret.kind = "return"
        /\ call.ret.value <=>
              /\ ~call.arg[1]
              /\ (call.arg[2] = "visible" \/ call.arg[3] = "visible")

\* C15's case: the check of the logout control raised, the profile
\* indicator is visible, and the call returned true.
C15_Witness ==
    /\ call.op = "isAuthenticated"
    /\ call.arg = <<FALSE, "raise", "visible">>
    /\ call.ret = Return(TRUE)

\* C16: every line AuthHelper.login or BasePage.fill logs of a credential
\* shows the credential as maskSensitiveData gives it, never as it is.
C16_CredentialsLoggedMasked ==
    /\ call.op = "login" =>
          \A i \in 1..Len(call.ret) :
              call.ret[i] \in {maskSensitiveData(call.arg[1], DefaultVisibleChars),
                               maskSensitiveData(call.arg[2], DefaultVisibleChars)}
    /\ call.op = "fill" =>
          \A i \in 1..Len(call.ret) :
              call.ret[i] = maskSensitiveData(call.arg[1], DefaultVisibleChars)

\* C17: maskSensitiveData(s, N) is as long as s, ends with the last
\* min(N, |s|) characters of s, and is '*' everywhere before them.
C17_MaskKeepsLengthAndTail ==
    call.op = "maskSensitiveData" =>
        LET s == call.arg[1]
            N == call.arg[2]
            r == call.ret
            k == Min(N, Len(s))
        IN  /\ Len(r) = Len(s)
            /\ \A i \in 1..Len(r) :
                  IF i > Len(s) - k THEN r[i] = s[i] ELSE r[i] = "*"

\* C18: a password generateStrongPassword returns has at least one
\* uppercase letter, one lowercase letter, one digit and one symbol and is
\* as long as asked (never shorter than four); with the default length,
\* the one generateRandomUser uses, it is 12 long.
C18_StrongPasswordPolicy ==
    call.op = "generateStrongPassword" =>
        LET pw == call.ret
        IN  /\ \E i \in 1..Len(pw) : pw[i] \in Range(uppercase)
            /\ \E i \in 1..Len(pw) : pw[i] \in Range(lowercase)
            /\ \E i \in 1..Len(pw) : pw[i] \in Range(numbers)
            /\ \E i \in 1..Len(pw) : pw[i] \in Range(special)
            /\ Len(pw) = Max(call.arg[1], 4)
            /\ call.arg[1] = DefaultLength => Len(pw) >= 12

\* C18's case: a password of the default length came back shuffled, its
\* guaranteed characters no longer in front.
C18_Witness ==
    /\ call.op = "generateStrongPassword"
    /\ call.arg = <<DefaultLength>>
    /\ Len(call.ret) = 12
    /\ call.ret[1] \notin Range(uppercase)

\* C19: with the users file absent, getTestUsers, getValidUser,
\* getInvalidUsers and the testData fixture end with the error loadData
\* threw; none of them returns a value.
C19_AbsentUsersFileRaises ==
    (call.op \in DataOps /\ call.arg[1] = "absent") =>
        /\ call.ret.kind = "raise"
        /\ call.ret.value = "Test data file not found"

\* C19's case: the testData fixture failed on the absent file.
C19_Witness ==
    /\ call.op = "testData"
    /\ call.arg = <<"absent">>
    /\ call.ret.kind = "raise"

\* C20: the constructor of EnvironmentConfig runs at most once in a
\* process; every getInstance() call returns the instance the first call
\* returned, with the env, baseURL, apiURL, timeout and retries it had
\* then, whatever the environment variables have become.
C20_SingletonInstance ==
    /\ constructed <= 1
    /\ instance = first
    /\ call.op = "getInstance" => (call.ret = first /\ constructed = 1)

\* C20's case: getInstance() returned the first instance although TIMEOUT
\* was changed after its construction.
C20_Witness ==
    /\ call.op = "getInstance"
    /\ call.ret = first
    /\ first.timeout = 30000
    /\ environ["TIMEOUT"] = "5000"

\* C21: when waitForPageLoad returns, the DOM-ready signal and the
\* network-idle signal have both occurred, or the network-idle timeout has
\* elapsed.
C21_PageLoadWaitsForBoth ==
    call.op = "waitForPageLoad" =>
        \/ call.arg[1] = "done" /\ call.arg[2] = "done"
        \/ call.arg[2] = "timeout"

\* C22: loginWithCredentials fills the email, fills the password, checks
\* the remember box only when asked, submits, and then waits for the URL to
\* leave the login path: when it has returned the page is no longer on the
\* login path.
C22_LoginWaitsForUrlChange ==
    call.op = "loginWithCredentials" =>
        /\ trace[1] = "fillEmail"
        /\ trace[2] = "fillPassword"
        /\ ("checkRememberLogin" \in Range(trace)) <=> call.arg[2]
        /\ call.arg[2] => trace[3] = "checkRememberLogin"
        /\ trace[Len(trace) - 1] = "clickLogin"
        /\ page.url # "/Login"

\* C23: after checkRememberLogin() the remember box is checked, whatever
\* it was before, and loginWithCredentials(email, password, true) submits
\* the form with the box checked.
C23_RememberBoxChecked ==
    /\ call.op = "checkRememberLogin" => page.remember
    /\ (call.op = "loginWithCredentials" /\ call.arg[2]) => call.ret.value

\* C24: click, fill and selectOption scroll the element into view before
\* anything else they do to it.
C24_ScrollBeforeInteraction ==
    call.op \in {"click", "fill", "selectOption"} =>
        trace[1] = "scrollIntoViewIfNeeded"

\* C25: a failure inside waitForPageLoad (the DOM-ready wait rejects) or
\* inside waitForLoadingToComplete (the spinner is still there at the
\* timeout) reaches the caller of waitForPageLoad as an error.
C25_NoSuppressedError ==
    (call.op = "waitForPageLoad" /\ (call.arg[1] = "failed" \/ call.arg[3] = "timeout")) =>
        call.ret.kind = "raise"

\* C26: when a test is over, every context and page its fixtures created
\* has been closed, the login page and the context of a failed login too.
C26_EverythingClosed ==
    pc = "done" => \A r \in opened : r \in Range(closeLog)

\* The invocations of the action among the events of a call.
Invocations == {i \in 1..Len(trace) : trace[i].e = "action"}

\* The first attempt that succeeds among the first m, m + 1 if none does.
RECURSIVE FirstSuccess(_, _, _)
FirstSuccess(succeeds, k, m) ==
    IF k > m THEN m + 1
    ELSE IF succeeds[k] THEN k ELSE FirstSuccess(succeeds, k + 1, m)

\* C27: for maxRetries >= 1, retryAction invokes the action k times, k the
\* first attempt that succeeds or maxRetries if none does; it returns the
\* result of that attempt, or rethrows the error of the last one; it waits
\* delayMs * attempt after each failed attempt but the last, and the call
\* ends with an invocation, never with a wait.
C27_RetryCountsAndDelays ==
    (call.op = "retryAction" /\ call.arg[2] >= 1) =>
        LET succeeds == call.arg[1]
            maxRetries == call.arg[2]
            delayMs == call.arg[3]
            f == FirstSuccess(succeeds, 1, maxRetries)
            k == Min(f, maxRetries)
        IN  /\ Cardinality(Invocations) = k
            /\ Len(trace) = 2 * k - 1
            /\ \A j \in 1..k : trace[2 * j - 1] = Invoked(j)
            /\ \A j \in 1..(k - 1) : trace[2 * j] = Waited(delayMs * j)
            /\ IF f <= maxRetries
                 THEN call.ret = Return(f)
                 ELSE call.ret = Raise(ActionError(maxRetries))

\* C27's case: two attempts failed, the third succeeded, and the waits were
\* 1000 and 2000 ms.
C27_Witness ==
    /\ call.op = "retryAction"
    /\ call.arg[2] = 3
    /\ call.ret = Return(3)
    /\ trace = <<Invoked(1), Waited(1000), Invoked(2), Waited(2000), Invoked(3)>>

\* C28: whatever maxRetries is, retryAction has invoked the action at least
\* once when it raises.
C28_InvokedAtLeastOnce ==
    (call.op = "retryAction" /\ call.ret.kind = "raise") => Invocations # {}

\* C29: a record of generateRandomUser has confirmPassword equal to
\* password, and the registration form filled from it has the same text in
\* the password field and in the confirmation field.
C29_ConfirmPasswordMatches ==
    call.op = "generateRandomUser" =>
        /\ call.ret.user.confirmPassword = call.ret.user.password
        /\ call.ret.form.confirmPasswordInput = call.ret.form.passwordInput

\* C30: a configuration constructed while TIMEOUT (RETRIES) is set to a
\* non-negative integer n, 0 included, has timeout (retries) n; it has the
\* default 30000 (2) only if the variable is unset or is not a number.
C30_NumericSettingsKept ==
    (call.op = "getInstance" /\ Len(call.arg) = 1) =>
        LET penv == call.arg[1]
            t == Number(penv["TIMEOUT"])
            r == Number(penv["RETRIES"])
        IN  /\ ~t.nan => call.ret.timeout = t.n
            /\ ~r.nan => call.ret.retries = r.n
            /\ call.ret.timeout = 30000 => (penv["TIMEOUT"] = "unset" \/ t.nan)
            /\ call.ret.retries = 2 => (penv["RETRIES"] = "unset" \/ r.nan)

====
